---- MODULE Spec2Model ----
(***************************************************************************)
(* A model of primes.c: a bit-packed Sieve of Eratosthenes that writes the *)
(* primes below 2^power to primes.txt.                                     *)
(*                                                                         *)
(* Pointers into the bit buffer are byte offsets from `start` (start = 0). *)
(* A byte is its bit pattern, a number in 0..255.  The machine is the one  *)
(* the source is written for: char is a signed 8-bit type (the source      *)
(* compares a char with -1), int has 32 bits and long has 64.              *)
(***************************************************************************)
EXTENDS Integers, Sequences, FiniteSets, TLC

VARIABLES
  pc,        \* position of the program
  argc,      \* main: argument count
  argv1,     \* main: argv[1], a sequence of characters (<<>> when absent)
  power,     \* main: power
  max,       \* main: max
  start,     \* main: start, "unset", "NULL" or "heap"
  buf,       \* the bytes calloc returned, indexed from 0
  end,       \* main: end, as an offset from start
  endsqrt,   \* main: endsqrt, as an offset from start
  current,   \* findPrimes: current / printPrimes: start (the scan pointer)
  pointind,  \* findPrimes, printPrimes: pointind
  ind,       \* findPrimes, printPrimes: ind
  ecurrent,  \* eliminateMults: current
  currind,   \* eliminateMults: currind
  send,      \* searchForZero: its parameter end
  ret,       \* searchForZero: the position it returns to
  primes,    \* main: the FILE primes, "unopened", "open" or "closed"
  out,       \* the numbers written to primes.txt, one per line
  freed,     \* whether free(start) was called
  status,    \* exit status of main, -1 while it runs
  acc,       \* the bit accesses (setToOne, bit test) made by the last step
  old,       \* function harness: the buffer before the call
  call       \* function harness: the call made and its arguments

vars == <<pc, argc, argv1, power, max, start, buf, end, endsqrt, current,
          pointind, ind, ecurrent, currind, send, ret, primes, out, freed,
          status, acc, old, call>>

-----------------------------------------------------------------------------
(* Program constants *)

POWER == 20

SPECIAL_ONE == 128

CHAR_BIT == 8

IntBits == 32

(* Bounds of the model *)

\* largest exponent whose buffer the modelled machine can allocate
MaxP == 8

\* longest argv[1]
MaxArgLen == 2

\* bytes of the buffer the single functions are exercised on
UnitBytes == 3

MemLimit == 2^(MaxP - 3)

Digits == {"0", "1", "2", "3", "4", "5", "6", "7", "8", "9"}

Chars == {"0", "1", "2", "3", "4", "5", "6", "7", "8", "9", "-", "x"}

ArgStrings == UNION {[1..n -> Chars] : n \in 0..MaxArgLen}

ByteVals == {0, 255, 128, 1, 170, 85, 53, 202}

-----------------------------------------------------------------------------
(* Bit arithmetic on 8-bit patterns *)

BitAt(x, k) == (x \div 2^k) % 2

RECURSIVE BitOrUpTo(_, _, _)
BitOrUpTo(a, b, k) ==
  IF k < 0 THEN 0
  ELSE (IF BitAt(a, k) + BitAt(b, k) > 0 THEN 2^k ELSE 0) + BitOrUpTo(a, b, k - 1)

BitOr(a, b) == BitOrUpTo(a, b, CHAR_BIT - 1)

RECURSIVE BitAndUpTo(_, _, _)
BitAndUpTo(a, b, k) ==
  IF k < 0 THEN 0
  ELSE (IF BitAt(a, k) + BitAt(b, k) = 2 THEN 2^k ELSE 0) + BitAndUpTo(a, b, k - 1)

BitAnd(a, b) == BitAndUpTo(a, b, CHAR_BIT - 1)

\* conversion of an int to char: the low 8 bits
ToChar(x) == x % (2^CHAR_BIT)

\* x >> n for x >= 0
ShiftRight(x, n) == IF n >= IntBits - 1 THEN 0 ELSE x \div 2^n

-----------------------------------------------------------------------------
(* main: command line *)

IsSpace(c) == c = " "

IsDigit(c) == c \in Digits

DigitVal(c) ==
  CASE c = "0" -> 0 [] c = "1" -> 1 [] c = "2" -> 2 [] c = "3" -> 3
    [] c = "4" -> 4 [] c = "5" -> 5 [] c = "6" -> 6 [] c = "7" -> 7
    [] c = "8" -> 8 [] c = "9" -> 9

RECURSIVE SkipSpace(_, _)
SkipSpace(s, k) == IF k <= Len(s) /\ IsSpace(s[k]) THEN SkipSpace(s, k + 1) ELSE k

RECURSIVE AtoiDigits(_, _, _)
AtoiDigits(s, k, v) ==
  IF k > Len(s) \/ ~IsDigit(s[k]) THEN v
  ELSE AtoiDigits(s, k + 1, 10 * v + DigitVal(s[k]))

\* atoi: leading white space, an optional sign, then the longest run of
\* digits; whatever follows is ignored and no digits at all give 0
atoi(s) ==
  LET k == SkipSpace(s, 1)
      signed == k <= Len(s) /\ s[k] \in {"-", "+"}
      v == AtoiDigits(s, IF signed THEN k + 1 ELSE k, 0)
  IN IF signed /\ s[k] = "-" THEN 0 - v ELSE v

\* lines 52-67
ParsedPower(n, s) ==
  IF n # 2 THEN POWER
  ELSE IF atoi(s) < 3 THEN POWER ELSE atoi(s)

IntMin == 0 - 2^(IntBits - 2) - 2^(IntBits - 2)

\* 1 << s in int.  For s < 31 the value is 2^s.  For s >= 31 the shift is
\* undefined: builds produce the wrapped value of a shifter that takes the
\* count modulo 32, or 0 from a shifter that shifts everything out.
ShiftOne(s) ==
  IF s < IntBits - 1 THEN {2^s}
  ELSE IF s = IntBits - 1 THEN {IntMin}
  ELSE {IF s % IntBits = IntBits - 1 THEN IntMin ELSE 2^(s % IntBits), 0}

SqrtTooSmall(n) == 0

\* (int)sqrt(n) for n >= 0
Isqrt(n) == CHOOSE r \in 0..n : r * r <= n /\ (r + 1) * (r + 1) > n

-----------------------------------------------------------------------------
(* setToOne, and the steps of eliminateMults and searchForZero *)

setToOneWrongEnd(b, c, i) ==
  [b EXCEPT ![c] = ToChar(BitOr(@, 2^i))]

\* lines 200-206: (*current) |= (SPECIAL_ONE >> ind)
setToOne(b, c, i) ==
  [b EXCEPT ![c] = ToChar(BitOr(@, ShiftRight(SPECIAL_ONE, i)))]

ElimStartAtP(q, r) == [current |-> q, currind |-> r]

ElimStartNoNorm(q, r) ==
  [current |-> CHAR_BIT * q * q + 2 * q * r, currind |-> r * r]

\* lines 154-170: current and currind of p^2, p = 8 * q + r.  The pointer
\* may lie far past end; it is only compared with end, as a flat address.
ElimStart(q, r) ==
  LET c == CHAR_BIT * q * q + 2 * q * r
      i == r * r
  IN IF i >= CHAR_BIT
     THEN [current |-> c + i \div CHAR_BIT, currind |-> i % CHAR_BIT]
     ELSE [current |-> c, currind |-> i]

\* lines 179-189: increment by p
ElimNext(c, q, r) ==
  LET cur == c.current + q
      i == c.currind + r
  IN IF i >= CHAR_BIT
     THEN [current |-> cur + 1, currind |-> i - CHAR_BIT]
     ELSE [current |-> cur, currind |-> i]

IncrementNoCarry(c) ==
  IF c.ind + 1 >= CHAR_BIT
  THEN [c EXCEPT !.ind = c.ind + 1 - CHAR_BIT]
  ELSE [c EXCEPT !.ind = c.ind + 1]

\* lines 226-232 and 257-263: the next position, pointer and index in step
Increment(c) ==
  IF c.ind + 1 >= CHAR_BIT
  THEN [current |-> c.current + 1, pointind |-> c.pointind + 1,
        ind |-> c.ind + 1 - CHAR_BIT]
  ELSE [c EXCEPT !.ind = c.ind + 1]

IsClearLsb(byte, i) == BitAnd(byte, 2^i) = 0

\* lines 239-251: temp = byte << ind; temp &= SPECIAL_ONE; temp == 0.
\* The byte is promoted to int, shifted, and the result converted back to
\* char, which keeps the low 8 bits of the shifted pattern (for a byte with
\* its top bit set the promoted value is negative and the builds shift its
\* two's complement representation).
IsClear(byte, i) ==
  LET temp == ToChar(byte * 2^i)
  IN BitAnd(temp, SPECIAL_ONE) = 0

(* The functions as wholes *)

RECURSIVE ElimLoop(_, _, _, _, _)
\* lines 174-190
ElimLoop(b, c, q, r, e) ==
  IF c.current < e
  THEN ElimLoop(setToOne(b, c.current, c.currind), ElimNext(c, q, r), q, r, e)
  ELSE b

\* lines 151-191
eliminateMults(b, q, r, e) == ElimLoop(b, ElimStart(q, r), q, r, e)

RECURSIVE SearchLoop(_, _, _)
\* lines 234-268
SearchLoop(b, c, e) ==
  IF c.current < e
  THEN IF IsClear(b[c.current], c.ind) THEN c ELSE SearchLoop(b, Increment(c), e)
  ELSE [c EXCEPT !.ind = -1]

\* lines 221-269
searchForZero(b, c, e) == SearchLoop(b, Increment(c), e)

-----------------------------------------------------------------------------
(* The program *)

Cursor == [current |-> current, pointind |-> pointind, ind |-> ind]

\* the byte a read of *current yields: inside the allocation the byte stored
\* there, outside it any value
ReadByte(c) == IF c \in DOMAIN buf THEN {buf[c]} ELSE 0..(2^CHAR_BIT - 1)

Init ==
  /\ pc = "main"
  /\ argc \in 1..3
  /\ argv1 \in ArgStrings
  /\ argc = 1 => argv1 = <<>>
  /\ power = 0
  /\ max = 0
  /\ start = "unset"
  /\ buf = <<>>
  /\ end = 0
  /\ endsqrt = 0
  /\ current = 0
  /\ pointind = 0
  /\ ind = 0
  /\ ecurrent = 0
  /\ currind = 0
  /\ send = 0
  /\ ret = "none"
  /\ primes = "unopened"
  /\ out = <<>>
  /\ freed = FALSE
  /\ status = -1
  /\ acc = {}
  /\ old = <<>>
  /\ call = [op |-> "none"]

ParseArgs ==
  /\ pc = "main"
  /\ power' = ParsedPower(argc, argv1)
  /\ pc' = "shift"
  /\ UNCHANGED <<argc, argv1, max, start, buf, end, endsqrt, current, pointind,
                 ind, ecurrent, currind, send, ret, primes, out, freed, status,
                 acc, old, call>>

ComputeMax ==
  /\ pc = "shift"
  /\ max' \in ShiftOne(power - 3)
  /\ pc' = "calloc"
  /\ UNCHANGED <<argc, argv1, power, start, buf, end, endsqrt, current,
                 pointind, ind, ecurrent, currind, send, ret, primes, out,
                 freed, status, acc, old, call>>

\* calloc succeeds: max bytes, all zero
CallocOk ==
  /\ pc = "calloc"
  /\ max >= 0
  /\ max <= MemLimit
  /\ start' = "heap"
  /\ buf' = [i \in 0..(max - 1) |-> 0]
  /\ end' = max
  /\ endsqrt' = Isqrt(max) + 1
  /\ pc' = "findPrimes"
  /\ UNCHANGED <<argc, argv1, power, max, current, pointind, ind, ecurrent,
                 currind, send, ret, primes, out, freed, status, acc, old, call>>

\* calloc returns NULL: main returns 1
CallocFail ==
  /\ pc = "calloc"
  /\ start' = "NULL"
  /\ status' = 1
  /\ pc' = "exit"
  /\ UNCHANGED <<argc, argv1, power, max, buf, end, endsqrt, current, pointind,
                 ind, ecurrent, currind, send, ret, primes, out, freed, acc,
                 old, call>>

FindPrimesInit ==
  /\ pc = "findPrimes"
  /\ max >= 1
  /\ buf' = setToOne(setToOne(buf, 0, 0), 0, 1)
  /\ acc' = {[op |-> "set", byte |-> 0, bit |-> 0],
             [op |-> "set", byte |-> 0, bit |-> 1]}
  /\ current' = 0
  /\ pointind' = 0
  /\ ind' = 2
  /\ pc' = "fp_while"
  /\ UNCHANGED <<argc, argv1, power, max, start, end, endsqrt, ecurrent,
                 currind, send, ret, primes, out, freed, status, old, call>>

\* a block of zero bytes: the first setToOne writes outside it
FindPrimesOutside ==
  /\ pc = "findPrimes"
  /\ max = 0
  /\ acc' = {[op |-> "set", byte |-> 0, bit |-> 0]}
  /\ pc' = "undefined"
  /\ UNCHANGED <<argc, argv1, power, max, start, buf, end, endsqrt, current,
                 pointind, ind, ecurrent, currind, send, ret, primes, out,
                 freed, status, old, call>>

FindPrimesCall ==
  /\ pc = "fp_while"
  /\ ind # -1
  /\ ecurrent' = ElimStart(pointind, ind).current
  /\ currind' = ElimStart(pointind, ind).currind
  /\ acc' = {}
  /\ pc' = "elim_while"
  /\ UNCHANGED <<argc, argv1, power, max, start, buf, end, endsqrt, current,
                 pointind, ind, send, ret, primes, out, freed, status, old, call>>

FindPrimesReturn ==
  /\ pc = "fp_while"
  /\ ind = -1
  /\ acc' = {}
  /\ pc' = "fopen"
  /\ UNCHANGED <<argc, argv1, power, max, start, buf, end, endsqrt, current,
                 pointind, ind, ecurrent, currind, send, ret, primes, out,
                 freed, status, old, call>>

ElimStep ==
  /\ pc = "elim_while"
  /\ ecurrent < end
  /\ buf' = setToOne(buf, ecurrent, currind)
  /\ acc' = {[op |-> "set", byte |-> ecurrent, bit |-> currind]}
  /\ LET n == ElimNext([current |-> ecurrent, currind |-> currind], pointind, ind)
     IN /\ ecurrent' = n.current
        /\ currind' = n.currind
  /\ UNCHANGED <<pc, argc, argv1, power, max, start, end, endsqrt, current,
                 pointind, ind, send, ret, primes, out, freed, status, old, call>>

\* eliminateMults returns; findPrimes calls searchForZero with endsqrt
ElimReturn ==
  /\ pc = "elim_while"
  /\ ecurrent >= end
  /\ send' = endsqrt
  /\ ret' = "fp_while"
  /\ acc' = {}
  /\ pc' = "search_enter"
  /\ UNCHANGED <<argc, argv1, power, max, start, buf, end, endsqrt, current,
                 pointind, ind, ecurrent, currind, primes, out, freed, status,
                 old, call>>

SearchEnter ==
  /\ pc = "search_enter"
  /\ current' = Increment(Cursor).current
  /\ pointind' = Increment(Cursor).pointind
  /\ ind' = Increment(Cursor).ind
  /\ acc' = {}
  /\ pc' = "search_while"
  /\ UNCHANGED <<argc, argv1, power, max, start, buf, end, endsqrt, ecurrent,
                 currind, send, ret, primes, out, freed, status, old, call>>

SearchFound ==
  /\ pc = "search_while"
  /\ current < send
  /\ \E byte \in ReadByte(current) : IsClear(byte, ind)
  /\ acc' = {[op |-> "test", byte |-> current, bit |-> ind]}
  /\ pc' = ret
  /\ UNCHANGED <<argc, argv1, power, max, start, buf, end, endsqrt, current,
                 pointind, ind, ecurrent, currind, send, ret, primes, out,
                 freed, status, old, call>>

SearchAdvance ==
  /\ pc = "search_while"
  /\ current < send
  /\ \E byte \in ReadByte(current) : ~IsClear(byte, ind)
  /\ acc' = {[op |-> "test", byte |-> current, bit |-> ind]}
  /\ current' = Increment(Cursor).current
  /\ pointind' = Increment(Cursor).pointind
  /\ ind' = Increment(Cursor).ind
  /\ UNCHANGED <<pc, argc, argv1, power, max, start, buf, end, endsqrt,
                 ecurrent, currind, send, ret, primes, out, freed, status,
                 old, call>>

SearchExhausted ==
  /\ pc = "search_while"
  /\ current >= send
  /\ ind' = -1
  /\ acc' = {}
  /\ pc' = ret
  /\ UNCHANGED <<argc, argv1, power, max, start, buf, end, endsqrt, current,
                 pointind, ecurrent, currind, send, ret, primes, out, freed,
                 status, old, call>>

FopenOk ==
  /\ pc = "fopen"
  /\ primes' = "open"
  /\ pc' = "printPrimes"
  /\ UNCHANGED <<argc, argv1, power, max, start, buf, end, endsqrt, current,
                 pointind, ind, ecurrent, currind, send, ret, out, freed,
                 status, acc, old, call>>

\* fopen returns NULL: main returns 1
FopenFail ==
  /\ pc = "fopen"
  /\ primes' = "NULL"
  /\ status' = 1
  /\ pc' = "exit"
  /\ UNCHANGED <<argc, argv1, power, max, start, buf, end, endsqrt, current,
                 pointind, ind, ecurrent, currind, send, ret, out, freed, acc,
                 old, call>>

\* printPrimes: its locals, and its first call of searchForZero with end
PrintInit ==
  /\ pc = "printPrimes"
  /\ current' = 0
  /\ pointind' = 0
  /\ ind' = 0
  /\ send' = end
  /\ ret' = "print_while"
  /\ pc' = "search_enter"
  /\ UNCHANGED <<argc, argv1, power, max, start, buf, end, endsqrt, ecurrent,
                 currind, primes, out, freed, status, acc, old, call>>

PrintEmit ==
  /\ pc = "print_while"
  /\ ind # -1
  /\ out' = Append(out, CHAR_BIT * pointind + ind)
  /\ acc' = {}
  /\ pc' = "search_enter"
  /\ UNCHANGED <<argc, argv1, power, max, start, buf, end, endsqrt, current,
                 pointind, ind, ecurrent, currind, send, ret, primes, freed,
                 status, old, call>>

PrintReturn ==
  /\ pc = "print_while"
  /\ ind = -1
  /\ acc' = {}
  /\ pc' = "free"
  /\ UNCHANGED <<argc, argv1, power, max, start, buf, end, endsqrt, current,
                 pointind, ind, ecurrent, currind, send, ret, primes, out,
                 freed, status, old, call>>

Finish ==
  /\ pc = "free"
  /\ freed' = TRUE
  /\ primes' = "closed"
  /\ status' = 0
  /\ pc' = "done"
  /\ UNCHANGED <<argc, argv1, power, max, start, buf, end, endsqrt, current,
                 pointind, ind, ecurrent, currind, send, ret, out, acc, old,
                 call>>

Next ==
  \/ ParseArgs
  \/ ComputeMax
  \/ CallocOk
  \/ CallocFail
  \/ FindPrimesInit
  \/ FindPrimesOutside
  \/ FindPrimesCall
  \/ FindPrimesReturn
  \/ ElimStep
  \/ ElimReturn
  \/ SearchEnter
  \/ SearchFound
  \/ SearchAdvance
  \/ SearchExhausted
  \/ FopenOk
  \/ FopenFail
  \/ PrintInit
  \/ PrintEmit
  \/ PrintReturn
  \/ Finish

Spec == Init /\ [][Next]_vars

\* the program is one thread that runs until main returns
FairSpec == Spec /\ WF_vars(Next)

-----------------------------------------------------------------------------
(* The functions on their own: eliminateMults and searchForZero applied to  *)
(* a buffer of UnitBytes bytes with any of the byte values of ByteVals.     *)

UnitInit ==
  /\ pc = "unit_ready"
  /\ argc = 1
  /\ argv1 = <<>>
  /\ power = 0
  /\ max = UnitBytes
  /\ start = "heap"
  /\ buf \in [0..(UnitBytes - 1) -> ByteVals]
  /\ end = UnitBytes
  /\ endsqrt = 0
  /\ current = 0
  /\ pointind = 0
  /\ ind = 0
  /\ ecurrent = 0
  /\ currind = 0
  /\ send = 0
  /\ ret = "none"
  /\ primes = "unopened"
  /\ out = <<>>
  /\ freed = FALSE
  /\ status = -1
  /\ acc = {}
  /\ old = <<>>
  /\ call = [op |-> "none"]

UnitCross ==
  /\ pc = "unit_ready"
  /\ \E q \in 0..(UnitBytes - 1), r \in 0..(CHAR_BIT - 1) :
       /\ CHAR_BIT * q + r >= 2
       /\ buf' = eliminateMults(buf, q, r, end)
       /\ call' = [op |-> "cross", q |-> q, r |-> r]
  /\ old' = buf
  /\ pc' = "unit_crossed"
  /\ UNCHANGED <<argc, argv1, power, max, start, end, endsqrt, current,
                 pointind, ind, ecurrent, currind, send, ret, primes, out,
                 freed, status, acc>>

UnitScan ==
  /\ pc = "unit_ready"
  /\ \E b \in 0..(UnitBytes - 1), i \in 0..(CHAR_BIT - 1), e \in 0..UnitBytes :
       LET c == searchForZero(buf, [current |-> b, pointind |-> b, ind |-> i], e)
       IN /\ current' = c.current
          /\ pointind' = c.pointind
          /\ ind' = c.ind
          /\ send' = e
          /\ call' = [op |-> "scan", b |-> b, i |-> i]
  /\ old' = buf
  /\ pc' = "unit_scanned"
  /\ UNCHANGED <<argc, argv1, power, max, start, buf, end, endsqrt, ecurrent,
                 currind, ret, primes, out, freed, status, acc>>

UnitNext == UnitCross \/ UnitScan

UnitSpec == UnitInit /\ [][UnitNext]_vars

-----------------------------------------------------------------------------
(* Properties *)

\* the bit of integer n, by the layout of the data model: byte n div 8, bit
\* n mod 8 counted from the most significant bit
Bit(b, n) == (b[n \div CHAR_BIT] \div 2^(CHAR_BIT - 1 - (n % CHAR_BIT))) % 2

\* main computed max = 2^(power - 3) without leaving the range of int
SizedBuffer == power >= 3 /\ power - 3 < IntBits - 1 /\ max = 2^(power - 3)

\* trial division
IsPrime(n) == n >= 2 /\ \A d \in 2..(n - 1) : n % d # 0

PiKnown == (3 :> 4) @@ (4 :> 6) @@ (5 :> 11) @@ (6 :> 18) @@ (7 :> 31) @@ (8 :> 54)
           @@ (10 :> 172)

\* C1: a complete run with exponent P emits exactly the primes p with
\* 2 <= p < 2^P, each once and in strictly increasing order; 0, 1 and 2^P
\* are not emitted and the number of values is pi(2^P - 1).
C1_ExactPrimes ==
  (pc = "done" /\ SizedBuffer) =>
    LET N == 2^power
        P == {n \in 0..N : IsPrime(n)}
    IN /\ \A k \in 1..(Len(out) - 1) : out[k] < out[k + 1]
       /\ {out[k] : k \in 1..Len(out)} = P
       /\ \A k \in 1..Len(out) : out[k] \notin {0, 1, N}
       /\ Len(out) = Cardinality({n \in 2..(N - 1) : IsPrime(n)})
       /\ power \in DOMAIN PiKnown => Len(out) = PiKnown[power]

C1_Witness == pc = "done" /\ SizedBuffer /\ power = 6 /\ Len(out) = 18 /\ out[18] = 61

\* C2: on every exit path on which the buffer was allocated, the buffer has
\* been released when main returns.
C2_Released == (status # -1 /\ start = "heap") => freed

\* a decimal integer: an optional sign and one or more digits, nothing else
IsInteger(s) ==
  LET body == IF Len(s) >= 1 /\ s[1] \in {"-", "+"} THEN Tail(s) ELSE s
  IN Len(body) >= 1 /\ \A k \in 1..Len(body) : IsDigit(body[k])

RECURSIVE DecimalValue(_)
DecimalValue(d) ==
  IF Len(d) = 0 THEN 0
  ELSE 10 * DecimalValue(SubSeq(d, 1, Len(d) - 1)) + DigitVal(d[Len(d)])

IntegerValue(s) ==
  IF s[1] = "-" THEN 0 - DecimalValue(Tail(s))
  ELSE IF s[1] = "+" THEN DecimalValue(Tail(s))
  ELSE DecimalValue(s)

\* C3: the exponent is POWER = 20 when there is no argument, more than one
\* argument, a non-numeric argument or an integer argument below 3, and it
\* is P for an integer argument P >= 3.
C3_DefaultFallback ==
  pc \notin {"main", "unit_ready", "unit_crossed", "unit_scanned"} =>
    IF argc = 2 /\ IsInteger(argv1) /\ IntegerValue(argv1) >= 3
    THEN power = IntegerValue(argv1)
    ELSE power = POWER

\* C4: for every accepted exponent P >= 3 the byte count max is 2^(P - 3);
\* the shift neither wraps nor goes negative.
C4_ByteCount ==
  pc \in {"calloc", "findPrimes", "exit", "done"} =>
    /\ power - 3 < IntBits - 1
    /\ max = 2^(power - 3)

\* C5: every bit test and every bit set addresses a byte inside
\* [start, end), and endsqrt does not lie beyond end.
C5_InBounds ==
  /\ \A a \in acc : a.byte \in 0..(max - 1)
  /\ start = "heap" => endsqrt <= end

C7_NextClear ==
  pc = "unit_scanned" =>
    LET from == CHAR_BIT * call.b + call.i
        clear == {n \in (from + 1)..(CHAR_BIT * send - 1) : Bit(old, n) = 0}
    IN /\ buf = old
       /\ IF clear = {}
          THEN ind = -1
          ELSE LET n == CHOOSE m \in clear : \A k \in clear : m <= k
               IN /\ current = n \div CHAR_BIT
                  /\ pointind = n \div CHAR_BIT
                  /\ ind = n % CHAR_BIT
       /\ ind # -1 => Bit(buf, CHAR_BIT * current + ind) = 0

C7_Witness ==
  /\ pc = "unit_scanned"
  /\ ind # -1
  /\ current = call.b + 2
  /\ Bit(old, CHAR_BIT * current + ind) = 0

\* the buffer of the sieve with the tight cutoff: bits 0 and 1, and what
\* the Crosser sets when it is driven by the primes p with p * p <= N only
TightBit(n, N) ==
  IF \/ n < 2
     \/ \E p \in 2..n : /\ IsPrime(p)
                        /\ p * p <= N
                        /\ n >= p * p
                        /\ (n - p * p) % p = 0
  THEN 1 ELSE 0

ExtraInvocation ==
  /\ pc = "elim_while"
  /\ (CHAR_BIT * pointind + ind) * (CHAR_BIT * pointind + ind) > CHAR_BIT * max

\* C8: the buffer at the end of the sieving phase with the source's cutoff
\* equals the buffer of the sieve with the tight cutoff, and every Crosser
\* invocation past the tight cutoff changes no bit.
C8_CutoffEquivalent ==
  /\ []((pc = "fopen" /\ SizedBuffer) =>
         \A n \in 0..(CHAR_BIT * max - 1) : Bit(buf, n) = TightBit(n, CHAR_BIT * max))
  /\ [][(ExtraInvocation /\ SizedBuffer) => buf' = buf]_vars

C8_Witness == ExtraInvocation /\ SizedBuffer /\ power = 7 /\ pointind = 1 /\ ind = 5

Exited == pc \in {"done", "exit"}

\* C9: a run on a zero-initialised buffer terminates: every Crosser
\* invocation is on p >= 2 and its position strictly increases, the sieving
\* loop ends with the Scanner exhausted at endsqrt and the enumeration loop
\* with the Scanner exhausted at end.
C9_Terminates ==
  /\ [](pc = "elim_while" => CHAR_BIT * pointind + ind >= 2)
  /\ [][(pc = "elim_while" /\ pc' = "elim_while") =>
          CHAR_BIT * ecurrent' + currind' > CHAR_BIT * ecurrent + currind]_vars
  /\ [](pc = "fopen" => (ind = -1 /\ current >= endsqrt))
  /\ [](pc = "free" => (ind = -1 /\ current >= end))
  /\ (pc = "findPrimes" /\ max >= 1) ~> Exited

C9_Witness == pc = "done" /\ max >= 16 /\ Len(out) >= 31

OffsetsInRange ==
  /\ \A a \in acc : a.bit \in 0..(CHAR_BIT - 1)
  /\ pc = "elim_while" => currind \in 0..(CHAR_BIT - 1)
  /\ \/ ind \in 0..(CHAR_BIT - 1)
     \/ /\ ind = -1
        /\ pc \in {"fp_while", "fopen", "printPrimes", "print_while", "free",
                   "done", "exit"}

\* C10: every bit offset used for a bit set or a bit test is in 0..7;
\* currind is in 0..7 after the normalisation of r^2 and after each advance;
\* ind is -1 only once the Scanner reported exhausted, and is then used for
\* no cursor arithmetic, bit access or emitted value.
C10_BitOffsets ==
  /\ []OffsetsInRange
  /\ [][ind = -1 =>
          /\ acc' = {}
          /\ out' = out
          /\ ind' = -1 \/ pc = "printPrimes"]_vars

C10_Witness ==
  /\ pc = "print_while" /\ ind = -1 /\ Len(out) >= 4
  /\ acc = {}

====
